---- MODULE Spec2Model ----
(***************************************************************************)
(* A model of the browser-side internationalisation object window.i18n     *)
(* (src/api-service.js, lines 220-471): the translation tables, the key    *)
(* resolver t, the DOM translator translatePage, the directionality        *)
(* applier applyLanguage, the language switcher and changeLanguage, over a *)
(* small document and the 'userLanguage' entry of localStorage.            *)
(***************************************************************************)
EXTENDS Integers, Sequences, FiniteSets, TLC

\* ------------------------------------------------------------------------
\* JavaScript values.  A value carries its type so that typeof, truthiness
\* and property lookup can be computed as the engine computes them.
\* ------------------------------------------------------------------------

Undefined == [type |-> "undefined"]

Str(s) == [type |-> "string", val |-> s]

Num(n) == [type |-> "number", num |-> n]

Fn(name) == [type |-> "function", name |-> name]

Obj(p) == [type |-> "object", props |-> p]

typeof(v) == v.type

\* ToBoolean: undefined, "" and 0 are falsy; objects and functions are truthy.
Truthy(v) ==
    CASE v.type = "undefined" -> FALSE
      [] v.type = "string"    -> v.val # ""
      [] v.type = "number"    -> v.num # 0
      [] OTHER                -> TRUE

\* The constructor every value of a type inherits from its prototype.
ConstructorOf(v) ==
    CASE v.type = "object"   -> Fn("Object")
      [] v.type = "string"   -> Fn("String")
      [] v.type = "number"   -> Fn("Number")
      [] OTHER               -> Fn("Function")

\* v[k] for a value v that is not undefined: an own property of an object, the
\* length of a string or of a constructor function (1), or a property inherited
\* from the prototype; undefined otherwise.  Of the inherited properties the
\* model keeps "constructor".
GetProp(v, k) ==
    CASE v.type = "object" /\ k \in DOMAIN v.props -> v.props[k]
      [] v.type = "string" /\ k = "length"         -> Num(Len(v.val))
      [] v.type = "function" /\ k = "length"       -> Num(1)
      [] k = "constructor"                         -> ConstructorOf(v)
      [] OTHER                                     -> Undefined

\* ------------------------------------------------------------------------
\* The translation dictionaries (lines 225-282).
\* ------------------------------------------------------------------------

Supported == {"en", "he", "ar", "ru"}

\* The English nav table, lines 227-238.
NavEn ==
    [overview |-> "Overview", browse |-> "Browse Tables",
     matches |-> "My Matches", dates |-> "Upcoming Dates",
     desired_times |-> "Desired Times", history |-> "Date History",
     profile |-> "Profile", restaurants |-> "Restaurants",
     settings |-> "Settings", logout |-> "Logout"]

\* The string a locale's table holds for a nav entry.  The Hebrew, Arabic and
\* Russian literals of lines 242-279 are written as the locale code followed
\* by the English text: one distinct non-empty string per locale and entry.
NavString(l, k) == IF l = "en" THEN NavEn[k] ELSE l \o ":" \o NavEn[k]

translations ==
    Obj([l \in Supported |->
            Obj([nav |-> Obj([k \in DOMAIN NavEn |-> Str(NavString(l, k))])])])

\* ------------------------------------------------------------------------
\* Dotted keys.  key.split('.') for the keys the model uses.
\* ------------------------------------------------------------------------

Keys ==
    {"nav.overview", "nav.profile", "nav", "nav.missing", "yes",
     "nav.foo.overview", "nav.constructor", "nav.overview.length"}

split(key) ==
    CASE key = "nav.overview"        -> <<"nav", "overview">>
      [] key = "nav.profile"         -> <<"nav", "profile">>
      [] key = "nav"                 -> <<"nav">>
      [] key = "nav.missing"         -> <<"nav", "missing">>
      [] key = "yes"                 -> <<"yes">>
      [] key = "nav.foo.overview"    -> <<"nav", "foo", "overview">>
      [] key = "nav.constructor"     -> <<"nav", "constructor">>
      [] key = "nav.overview.length" -> <<"nav", "overview", "length">>

\* ------------------------------------------------------------------------
\* The key resolver t (lines 441-454).
\* ------------------------------------------------------------------------

\* The for loop of t from segment i on: a missing (falsy) step returns the key.
RECURSIVE tWalk(_, _, _, _)
tWalk(translation, keys, i, key) ==
    IF i > Len(keys) THEN translation
    ELSE IF Truthy(translation) /\ Truthy(GetProp(translation, keys[i]))
         THEN tWalk(GetProp(translation, keys[i]), keys, i + 1, key)
         ELSE Str(key)

\* t(key) when the active locale is lang.
t(lang, key) == tWalk(GetProp(translations, lang), split(key), 1, key)

\* ------------------------------------------------------------------------
\* The document.  An element has attributes and child nodes; a child node is
\* a text node [text |-> s] or an element [el |-> id].
\* ------------------------------------------------------------------------

ElemIds == {"body", "link", "badge", "card"}

TextNode(s) == [text |-> s]

ElNode(id) == [el |-> id]

NoAttrs == << >>

\* The elements of a node list and their descendants, in document order.
RECURSIVE Preorder(_, _)
Preorder(d, nodes) ==
    IF nodes = << >> THEN << >>
    ELSE LET h == Head(nodes)
         IN  (IF "el" \in DOMAIN h
              THEN <<h.el>> \o Preorder(d, d[h.el].kids)
              ELSE << >>) \o Preorder(d, Tail(nodes))

\* The elements attached to the document, body excluded.
Attached(d) == {Preorder(d, d["body"].kids)[i] : i \in 1..Len(Preorder(d, d["body"].kids))}

\* The textContent getter: the text of all descendant text nodes, in order.
RECURSIVE TextOf(_, _)
TextOf(d, nodes) ==
    IF nodes = << >> THEN ""
    ELSE LET h == Head(nodes)
         IN  (IF "el" \in DOMAIN h THEN TextOf(d, d[h.el].kids) ELSE h.text)
             \o TextOf(d, Tail(nodes))

textContent(d, id) == TextOf(d, d[id].kids)

\* A setter that appends the text node and keeps the children.
setTextContentAppend(d, id, s) ==
    [d EXCEPT ![id].kids = IF s = "" THEN @ ELSE Append(@, TextNode(s))]

\* The textContent setter: every child is removed and replaced by one text
\* node (by none when the string is empty).
setTextContent(d, id, s) ==
    [d EXCEPT ![id].kids = IF s = "" THEN << >> ELSE <<TextNode(s)>>]

\* document.querySelectorAll('[attr]'): a static list in document order.
querySelectorAll(d, attr) ==
    SelectSeq(Preorder(d, d["body"].kids), LAMBDA id : attr \in DOMAIN d[id].attrs)

\* ------------------------------------------------------------------------
\* The DOM translator translatePage (lines 422-438).
\* ------------------------------------------------------------------------

\* The for loop of lines 428-432 from segment i on: it has no else branch, so
\* a missing step is skipped and the walk goes on from the same node.
RECURSIVE translateWalk(_, _, _)
translateWalk(translation, keys, i) ==
    IF i > Len(keys) THEN translation
    ELSE IF Truthy(translation) /\ Truthy(GetProp(translation, keys[i]))
         THEN translateWalk(GetProp(translation, keys[i]), keys, i + 1)
         ELSE translateWalk(translation, keys, i + 1)

\* A translator that replaces an element's text only while the element still
\* shows the English string of its key.
translateElementLossy(lang, d, id) ==
    LET keys == split(d[id].attrs["data-translate"])
        translation == translateWalk(GetProp(translations, lang), keys, 1)
        english == translateWalk(GetProp(translations, "en"), keys, 1)
    IN  IF typeof(translation) = "string" /\ typeof(english) = "string"
           /\ textContent(d, id) = english.val
        THEN setTextContent(d, id, translation.val)
        ELSE d

\* The body of the forEach callback for one element (lines 425-436).
translateElement(lang, d, id) ==
    LET keys == split(d[id].attrs["data-translate"])
        translation == translateWalk(GetProp(translations, lang), keys, 1)
    IN  IF typeof(translation) = "string"
        THEN setTextContent(d, id, translation.val)
        ELSE d

RECURSIVE translateEach(_, _, _, _)
translateEach(lang, d, list, i) ==
    IF i > Len(list) THEN d
    ELSE translateEach(lang, translateElement(lang, d, list[i]), list, i + 1)

\* ------------------------------------------------------------------------
\* The page: the document tree, the body's direction and 'rtl' class, and the
\* '.language-switcher' elements appended to the body.
\* ------------------------------------------------------------------------

\* translatePage() with active locale lang.
translatePage(lang, p) ==
    [p EXCEPT !.doc = translateEach(lang, p.doc,
                                    querySelectorAll(p.doc, "data-translate"), 1)]

\* The languages array of lines 318-323.
languages ==
    <<[code |-> "en", label |-> "EN"], [code |-> "he", label |-> "HE"],
      [code |-> "ar", label |-> "AR"], [code |-> "ru", label |-> "RU"]>>

\* One button as the forEach callback of lines 325-357 builds it.
newButton(lang, l) ==
    [textContent |-> l.label,
     active      |-> (l.code = lang),
     background  |-> IF l.code = lang THEN "#FF6B6B" ELSE "transparent",
     color       |-> IF l.code = lang THEN "white" ELSE "#2D3436"]

\* The switcher element of lines 303-357: fixed at the right edge.
newSwitcher(lang) ==
    [left |-> "", right |-> "2rem",
     buttons |-> [i \in 1..Len(languages) |-> newButton(lang, languages[i])]]

\* A constructor without the check of lines 298-301.
createLanguageSwitcherAlways(lang, p) ==
    [p EXCEPT !.switchers = Append(p.switchers, newSwitcher(lang))]

\* createLanguageSwitcher() (lines 296-361): nothing when a switcher exists.
createLanguageSwitcher(lang, p) ==
    IF p.switchers # << >> THEN p
    ELSE [p EXCEPT !.switchers = Append(p.switchers, newSwitcher(lang))]

\* The test of lines 370-375 for one '.lang-btn'.
isActive(lang, btn) ==
    \/ (lang = "en" /\ btn.textContent = "EN")
    \/ (lang = "he" /\ btn.textContent = "HE")
    \/ (lang = "ar" /\ btn.textContent = "AR")
    \/ (lang = "ru" /\ btn.textContent = "RU")

\* Lines 377-385 for one button.
restyleButton(lang, btn) ==
    IF isActive(lang, btn)
    THEN [btn EXCEPT !.active = TRUE, !.background = "#FF6B6B", !.color = "white"]
    ELSE [btn EXCEPT !.active = FALSE, !.background = "transparent",
                     !.color = "#2D3436"]

\* Lines 369-386: every '.lang-btn' of the document is restyled.
restyleButtons(lang, p) ==
    [p EXCEPT !.switchers =
        [i \in 1..Len(p.switchers) |->
            [p.switchers[i] EXCEPT !.buttons =
                [j \in 1..Len(p.switchers[i].buttons) |->
                    restyleButton(lang, p.switchers[i].buttons[j])]]]]

\* A test that knows Hebrew only.
isRTLHebrewOnly(lang) == lang = "he"

\* The locales laid out right to left (line 399).
isRTL(lang) == lang = "he" \/ lang = "ar"

\* Lines 404-408 and 414-418: the first '.language-switcher', when there is one.
moveSwitcher(lang, sws) ==
    IF sws = << >> THEN sws
    ELSE IF isRTL(lang)
         THEN [sws EXCEPT ![1].right = "auto", ![1].left = "2rem"]
         ELSE [sws EXCEPT ![1].left = "auto", ![1].right = "2rem"]

\* An applier whose left-to-right branch leaves the 'rtl' class as it was.
applyLanguageKeepsClass(lang, p) ==
    [p EXCEPT !.body = IF isRTL(lang)
                       THEN [rtl |-> TRUE, direction |-> "rtl"]
                       ELSE [rtl |-> p.body.rtl, direction |-> "ltr"],
              !.switchers = moveSwitcher(lang, p.switchers)]

\* applyLanguage() (lines 397-420).
applyLanguage(lang, p) ==
    [p EXCEPT !.body = IF isRTL(lang)
                       THEN [rtl |-> TRUE, direction |-> "rtl"]
                       ELSE [rtl |-> FALSE, direction |-> "ltr"],
              !.switchers = moveSwitcher(lang, p.switchers)]

\* init() (lines 289-294).
init(lang, p) ==
    translatePage(lang, applyLanguage(lang, createLanguageSwitcher(lang, p)))

\* The page changeLanguage(lang) leaves once the preference is stored
\* (lines 368-389).
changeLanguagePage(lang, p) ==
    translatePage(lang, applyLanguage(lang, restyleButtons(lang, p)))

\* ------------------------------------------------------------------------
\* The state.
\* ------------------------------------------------------------------------

VARIABLES
    localStorage,   \* the origin's storage: a function from entry names to strings
    i18n,           \* window.i18n: << >> while it does not exist, else [currentLang]
    page,           \* [doc, body, switchers]
    html,           \* the document as authored, which every page load starts from
    initialized,    \* init() has run since the page was loaded
    dirty,          \* changeLanguage was called since the page was loaded
    last,           \* the last call: its name, argument, outcome, result and events
    pc,             \* the call that is running and the statements it has done
    readyState,     \* document.readyState
    domContentLoaded, \* the DOMContentLoaded event has been fired
    scriptRan,      \* the i18n script has executed since the navigation
    timeouts,       \* the callbacks setTimeout has queued
    listeners,      \* the DOMContentLoaded listeners of the document
    inits,          \* how many times init() was invoked since the navigation
    csrfToken,      \* APIService: this.csrfToken
    reqs,           \* APIService: the request() calls, by number
    net,            \* the fetch calls made so far, in order
    now,            \* the clock, in units of time
    delay,          \* the wait of the debounced, the limit of the throttled function
    timers,         \* the timers setTimeout has started and that have not run
    timeout,        \* debounce: the closure's timeout (0 while undefined)
    inThrottle,     \* throttle: the closure's inThrottle (FALSE while undefined)
    log,            \* the calls of the wrapped function and the runs of func
    container,      \* toast: this.container (0 while null, else the element's number)
    bodyContainers, \* the '#toast-container' elements that are children of body
    toasts,         \* the toast elements, by number of the show call
    toastTimers,    \* the timers show has started and that have not run
    toastThrew,     \* a toast callback or handler has thrown
    sourceIsFunction, \* autocomplete: typeof source === 'function'
    inputValue,     \* autocomplete: input.value
    inputs,         \* autocomplete: how many input events there have been
    pending,        \* autocomplete: the source(value) calls that have not answered
    children,       \* autocomplete: container.children, as the items they show
    display,        \* autocomplete: container.style.display
    currentFocus,   \* autocomplete: the closure's currentFocus
    selected        \* autocomplete: the item last clicked ("" while none was)

\* The variables of the readiness gate (lines 457-470).
gateVars == <<readyState, domContentLoaded, scriptRan, timeouts, listeners, inits>>

\* Nothing of the gate is pending: the page has loaded completely, the script
\* has run and nothing is queued.  The specifications in which init() is
\* called directly start here.
GateSettled ==
    /\ readyState = "complete"
    /\ domContentLoaded = TRUE
    /\ scriptRan = TRUE
    /\ timeouts = << >>
    /\ listeners = << >>
    /\ inits = 0

\* JavaScript's null.
Null == [type |-> "null"]

\* A request() call that has not been made.
NoRequest ==
    [st |-> "idle", method |-> "", own |-> "none", tokenFetch |-> "none",
     resp |-> << >>, result |-> << >>]

\* How many request() calls one run makes.
MaxReq == 2

\* The variables of the APIService instance (lines 4-60) and of its network.
apiVars == <<csrfToken, reqs, net>>

\* A new APIService (lines 5-8) that has made no call.
ApiNew ==
    /\ csrfToken = Null
    /\ reqs = [r \in 1..MaxReq |-> NoRequest]
    /\ net = << >>

\* The variables of Utils.debounce and Utils.throttle (src/utils.js, lines
\* 199-222) and of their timers.
timerVars == <<now, delay, timers, timeout, inThrottle, log>>

\* No wrapped function has been called and no timer runs.
TimersIdle ==
    /\ now = 0
    /\ delay = 1
    /\ timers = {}
    /\ timeout = 0
    /\ inThrottle = FALSE
    /\ log = << >>

\* How many times toast.show is called.
MaxToasts == 2

\* A toast element that show has not created.
NoToast == [st |-> "none", parent |-> 0, type |-> "", transform |-> "", closed |-> FALSE]

\* The variables of UIComponents.toast (src/unnamed/part_000, lines 6-79).
toastVars == <<container, bodyContainers, toasts, toastTimers, toastThrew>>

\* UIComponents.toast before its first show (line 7).
ToastNew ==
    /\ container = 0
    /\ bodyContainers = {}
    /\ toasts = [n \in 1..MaxToasts |-> NoToast]
    /\ toastTimers = {}
    /\ toastThrew = FALSE

\* The variables of one UIComponents.autocomplete.create (src/unnamed/part_000,
\* lines 414-513).
acVars == <<sourceIsFunction, inputValue, inputs, pending, children, display,
            currentFocus, selected>>

\* An autocomplete right after create, over an array source (lines 421-438).
AutocompleteNew ==
    /\ sourceIsFunction = FALSE
    /\ inputValue = ""
    /\ inputs = 0
    /\ pending = {}
    /\ children = << >>
    /\ display = "none"
    /\ currentFocus = -1
    /\ selected = ""

\* The variables outside the i18n object, its page and its storage.
outside == <<gateVars, apiVars, timerVars, toastVars, acVars>>

\* What the actions of one component leave alone outside it and the i18n
\* object.
gateRest == <<apiVars, timerVars, toastVars, acVars>>

apiRest == <<gateVars, timerVars, toastVars, acVars>>

timerRest == <<gateVars, apiVars, toastVars, acVars>>

toastRest == <<gateVars, apiVars, timerVars, acVars>>

acRest == <<gateVars, apiVars, timerVars, toastVars>>

\* The same, as initial values.
GateRestInit == ApiNew /\ TimersIdle /\ ToastNew /\ AutocompleteNew

ApiRestInit == GateSettled /\ TimersIdle /\ ToastNew /\ AutocompleteNew

TimerRestInit == GateSettled /\ ApiNew /\ ToastNew /\ AutocompleteNew

ToastRestInit == GateSettled /\ ApiNew /\ TimersIdle /\ AutocompleteNew

AcRestInit == GateSettled /\ ApiNew /\ TimersIdle /\ ToastNew

\* The variables of the i18n object, its page and its storage.
i18nVars == <<localStorage, i18n, page, html, initialized, dirty, last, pc>>

vars == <<localStorage, i18n, page, html, initialized, dirty, last, pc, outside>>

OutsideInit == GateSettled /\ ApiNew /\ TimersIdle /\ ToastNew /\ AutocompleteNew

\* No call is running: control is with the event loop.
Idle == [op |-> "", arg |-> "", done |-> << >>, events |-> << >>, fresh |-> FALSE]

\* The arguments changeLanguage is called with, and the values a previous
\* session may have stored: the supported codes, an unsupported code and "".
LangArgs == Supported \cup {"fr", ""}

NoStorage == << >>

Stored(v) == [userLanguage |-> v]

\* localStorage.getItem('userLanguage') || 'en' (line 286): null and "" give 'en'.
initialLang(ls) ==
    IF "userLanguage" \in DOMAIN ls /\ ls["userLanguage"] # ""
    THEN ls["userLanguage"]
    ELSE "en"

\* A write that is dropped.
setItemLost(ls, lang) == ls

\* localStorage.setItem('userLanguage', lang) (line 366).
setItem(ls, lang) == ("userLanguage" :> lang) @@ ls

\* The authored documents: a link tagged with a key, holding text and
\* (shape 1) an untagged child element or (shape 2) a tagged one, and a
\* restaurant card, which carries no key until handleRestaurantTranslation.
Shapes == {0, 1, 2}

Html(key, shape) ==
    [body  |-> [attrs |-> NoAttrs, kids |-> <<ElNode("link"), ElNode("card")>>],
     link  |-> [attrs |-> ("data-translate" :> key),
                kids  |-> IF shape = 0 THEN <<TextNode("Overview")>>
                          ELSE <<TextNode("Overview"), ElNode("badge")>>],
     badge |-> [attrs |-> IF shape = 2 THEN ("data-translate" :> "nav.profile")
                          ELSE NoAttrs,
                kids  |-> IF shape = 0 THEN << >> ELSE <<TextNode("Profile")>>],
     card  |-> [attrs |-> ("class" :> "restaurant-card"),
                kids  |-> <<TextNode("Sushi Bar")>>]]

\* The page a load starts from: no direction set, no switcher.
FreshPage(h) ==
    [doc |-> h, body |-> [rtl |-> FALSE, direction |-> ""], switchers |-> << >>]

\* The record of a call; again says that it directly follows a call of the
\* same operation.
Call(op, arg, outcome, result, events) ==
    [op |-> op, arg |-> arg, outcome |-> outcome, result |-> result,
     events |-> events, again |-> (last.op = op)]

Defined == "currentLang" \in DOMAIN i18n

\* The script runs (lines 221-287): the i18n object is built with the stored
\* preference; ok = FALSE is a storage read that throws, which ends the script
\* before window.i18n is assigned.
Load(ok) ==
    /\ i18n' = IF ok THEN [currentLang |-> initialLang(localStorage)] ELSE << >>
    /\ page' = FreshPage(html)
    /\ initialized' = FALSE
    /\ dirty' = FALSE
    /\ last' = Call("load", "", IF ok THEN "returned" ELSE "threw", Undefined, << >>)
    /\ UNCHANGED <<localStorage, html, pc, outside>>

Init ==
    /\ localStorage \in {NoStorage} \cup {Stored(v) : v \in LangArgs}
    /\ html \in {Html(k, s) : k \in Keys, s \in Shapes}
    /\ i18n = [currentLang |-> initialLang(localStorage)]
    /\ last = [op |-> "load", arg |-> "", outcome |-> "returned",
               result |-> Undefined, events |-> << >>, again |-> FALSE]
    /\ page = FreshPage(html)
    /\ initialized = FALSE
    /\ dirty = FALSE
    /\ pc = Idle
    /\ OutsideInit

\* The page is loaded again, with the storage readable.
PageLoad == Load(TRUE)

\* An init that also stores the active locale.
CallInitPersists ==
    /\ Defined
    /\ page' = init(i18n.currentLang, page)
    /\ localStorage' = setItem(localStorage, i18n.currentLang)
    /\ initialized' = TRUE
    /\ last' = Call("init", "", "returned", Undefined, << >>)
    /\ UNCHANGED <<i18n, html, dirty, pc, outside>>

\* window.i18n.init() (lines 289-294), from the readiness gate of lines
\* 459-470 or from any other script.
CallInit ==
    /\ Defined
    /\ page' = init(i18n.currentLang, page)
    /\ initialized' = TRUE
    /\ last' = Call("init", "", "returned", Undefined, << >>)
    /\ UNCHANGED <<localStorage, i18n, html, dirty, pc, outside>>

\* changeLanguage(lang) (lines 363-395).  ok = FALSE is a setItem that throws:
\* the assignment of line 365 has happened and nothing after line 366 runs.
changeLanguage(lang, ok) ==
    /\ i18n' = [i18n EXCEPT !.currentLang = lang]
    /\ dirty' = TRUE
    /\ IF ok
       THEN /\ localStorage' = setItem(localStorage, lang)
            /\ page' = changeLanguagePage(lang, page)
            /\ last' = Call("changeLanguage", lang, "returned", Undefined,
                            <<[type |-> "languageChanged",
                               detail |-> [language |-> lang]]>>)
       ELSE /\ UNCHANGED <<localStorage, page>>
            /\ last' = Call("changeLanguage", lang, "threw", Undefined, << >>)
    /\ UNCHANGED <<html, initialized, pc, outside>>

\* window.i18n.changeLanguage(lang), from a button's onclick (line 355) or
\* from any other script, with the storage writable.
CallChangeLanguage ==
    /\ Defined
    /\ \E lang \in LangArgs : changeLanguage(lang, TRUE)

\* window.i18n.createLanguageSwitcher().
CallCreateLanguageSwitcher ==
    /\ Defined
    /\ page' = createLanguageSwitcher(i18n.currentLang, page)
    /\ last' = Call("createLanguageSwitcher", "", "returned", Undefined, << >>)
    /\ UNCHANGED <<localStorage, i18n, html, initialized, dirty, pc, outside>>

\* window.i18n.applyLanguage().
CallApplyLanguage ==
    /\ Defined
    /\ page' = applyLanguage(i18n.currentLang, page)
    /\ last' = Call("applyLanguage", "", "returned", Undefined, << >>)
    /\ UNCHANGED <<localStorage, i18n, html, initialized, dirty, pc, outside>>

\* window.i18n.translatePage().
CallTranslatePage ==
    /\ Defined
    /\ page' = translatePage(i18n.currentLang, page)
    /\ last' = Call("translatePage", "", "returned", Undefined, << >>)
    /\ UNCHANGED <<localStorage, i18n, html, initialized, dirty, pc, outside>>

\* window.i18n.t(key).
CallT ==
    /\ Defined
    /\ \E key \in Keys :
          last' = Call("t", key, "returned", t(i18n.currentLang, key), << >>)
    /\ UNCHANGED <<localStorage, i18n, page, html, initialized, dirty, pc, outside>>

\* handleRestaurantTranslation() (src/static/js/conveythis-config.js, lines
\* 26-43) marks the restaurant cards with data-translate="yes".
handleRestaurantTranslation(d) ==
    [d EXCEPT !["card"].attrs = ("data-translate" :> "yes") @@ @]

HandleRestaurantTranslation ==
    /\ "data-translate" \notin DOMAIN page.doc["card"].attrs
    /\ page' = [page EXCEPT !.doc = handleRestaurantTranslation(@)]
    /\ last' = Call("handleRestaurantTranslation", "", "returned", Undefined, << >>)
    /\ UNCHANGED <<localStorage, i18n, html, initialized, dirty, pc, outside>>

Next ==
    \/ PageLoad
    \/ CallInit
    \/ CallChangeLanguage
    \/ CallCreateLanguageSwitcher
    \/ CallApplyLanguage
    \/ CallTranslatePage
    \/ CallT
    \/ HandleRestaurantTranslation

Spec == Init /\ [][Next]_vars

\* ------------------------------------------------------------------------
\* What the tables hold, read off the data alone (own entries only).
\* ------------------------------------------------------------------------

\* The node a path of segments leads to from a table node, or Undefined when
\* a segment is missing at its step.
RECURSIVE TableWalk(_, _, _)
TableWalk(node, keys, i) ==
    IF i > Len(keys) THEN node
    ELSE IF node.type = "object" /\ keys[i] \in DOMAIN node.props
         THEN TableWalk(node.props[keys[i]], keys, i + 1)
         ELSE Undefined

TableEntry(lang, key) ==
    IF lang \in DOMAIN translations.props
    THEN TableWalk(translations.props[lang], split(key), 1)
    ELSE Undefined

\* The key does not resolve: the locale has no table or a segment is missing.
MissingIn(lang, key) == TableEntry(lang, key) = Undefined

\* The key is a proper prefix of leaf paths: the walk ends on a mapping.
PrefixIn(lang, key) == TableEntry(lang, key).type = "object"

\* The key is present: the walk ends on a string leaf.
PresentIn(lang, key) == TableEntry(lang, key).type = "string"

HasKey(d, id) == "data-translate" \in DOMAIN d[id].attrs

KeyOf(d, id) == d[id].attrs["data-translate"]

\* The attached elements carrying a data-translate attribute.
Tagged(d) == {id \in Attached(d) : HasKey(d, id)}

\* The child elements of an element, in order.
ChildElements(d, id) == SelectSeq(d[id].kids, LAMBDA n : "el" \in DOMAIN n)

StoredValueSupported ==
    "userLanguage" \in DOMAIN localStorage
    /\ localStorage["userLanguage"] \in Supported

\* ------------------------------------------------------------------------
\* The claims.
\* ------------------------------------------------------------------------

\* C1: in every reachable state the active locale is one of en, he, ar, ru,
\* and the value the program has persisted under 'userLanguage' is one of
\* them too: an unsupported value is never applied or persisted.
C1_LocaleAlwaysSupported ==
    Defined =>
        /\ i18n.currentLang \in Supported
        /\ (last.op = "changeLanguage" => StoredValueSupported)

\* C2: after the initialization of a page load that found the preference
\* absent or outside the supported set, the active locale is en and the
\* layout init applied is left to right.
C2_InvalidPreferenceDefaultsToEn ==
    (Defined /\ initialized /\ ~dirty /\ ~StoredValueSupported) =>
        /\ i18n.currentLang = "en"
        /\ page.body.direction = "ltr"
        /\ ~page.body.rtl

\* C3: a changeLanguage call with a code outside the supported set returns
\* without an exception and leaves the active locale, the persisted
\* preference and the page (button marking, direction, text) unchanged.
C3_UnsupportedCodeIgnored ==
    [][(last'.op = "changeLanguage" /\ last'.arg \notin Supported) =>
          /\ last'.outcome = "returned"
          /\ UNCHANGED <<i18n, localStorage, page>>]_vars

\* C4: once changeLanguage(X) has returned for a supported X, the active
\* locale is X and the persisted preference is X, and the value a page load
\* computes from that preference is X; a page load that finds a supported
\* preference makes it the active locale.
C4_SetLocaleRoundTrip ==
    /\ (last.op = "changeLanguage" /\ last.outcome = "returned"
        /\ last.arg \in Supported) =>
            /\ i18n.currentLang = last.arg
            /\ localStorage = Stored(last.arg)
            /\ initialLang(localStorage) = last.arg
    /\ (last.op = "load" /\ last.outcome = "returned" /\ StoredValueSupported) =>
            i18n.currentLang = localStorage["userLanguage"]

\* A supported locale was set over a different stored preference or none.
C4_Witness ==
    /\ last.op = "changeLanguage"
    /\ last.arg = "he"
    /\ i18n.currentLang = "he"
    /\ localStorage = Stored("he")
    /\ initialized

\* C5: for every key that does not resolve in the active locale's table,
\* t(key) returns exactly the key.
C5_FallbackIdentity ==
    (last.op = "t" /\ MissingIn(i18n.currentLang, last.arg)) =>
        last.result = Str(last.arg)

\* C6: for a key that is a proper prefix of a leaf path, t(key) returns the
\* key itself, a string, and not the mapping the walk ended on.
C6_PrefixKeyReturnsKey ==
    (last.op = "t" /\ PrefixIn(i18n.currentLang, last.arg)) =>
        /\ typeof(last.result) = "string"
        /\ last.result = Str(last.arg)

\* C7: after translatePage() every attached element carrying a data-translate
\* key shows t(key) for the active locale.
C7_TranslatorAgreesWithResolver ==
    last.op = "translatePage" =>
        \A id \in Tagged(page.doc) :
            Str(textContent(page.doc, id)) = t(i18n.currentLang, KeyOf(page.doc, id))

C9_TranslatePageIdempotent ==
    [][(last.op = "translatePage" /\ last'.op = "translatePage") =>
          \A id \in ElemIds :
              textContent(page'.doc, id) = textContent(page.doc, id)]_vars

\* translatePage() has run twice in succession on a page whose tagged link
\* shows a translation.
C9_Witness ==
    /\ last.op = "translatePage"
    /\ last.again
    /\ "link" \in Tagged(page.doc)
    /\ PresentIn(i18n.currentLang, KeyOf(page.doc, "link"))
    /\ i18n.currentLang = "he"
    /\ textContent(page.doc, "link") = NavString("he", "overview")

\* C10: translatePage() changes only text: every element keeps its child
\* elements and its attributes, and untagged elements are left as they were.
C10_TranslateOnlyText ==
    [][last'.op = "translatePage" =>
          \A id \in ElemIds :
              /\ page'.doc[id].attrs = page.doc[id].attrs
              /\ ChildElements(page'.doc, id) = ChildElements(page.doc, id)
              /\ (~HasKey(page.doc, id) => page'.doc[id] = page.doc[id])]_vars

Directions == {"", "ltr", "rtl"}

Positions == {[left |-> "", right |-> "2rem"], [left |-> "auto", right |-> "2rem"],
              [left |-> "2rem", right |-> "auto"]}

\* The switcher of a locale, placed at a position.
PlacedSwitcher(lang, pos) ==
    [newSwitcher(lang) EXCEPT !.left = pos.left, !.right = pos.right]

InitApply ==
    /\ localStorage = NoStorage
    /\ html = Html("nav.overview", 0)
    /\ i18n \in {[currentLang |-> l] : l \in LangArgs}
    /\ \E dir \in Directions, cls \in BOOLEAN :
         \E sws \in {<< >>} \cup {<<PlacedSwitcher(l, pos)>> : l \in Supported, pos \in Positions} :
            page = [doc |-> html, body |-> [rtl |-> cls, direction |-> dir],
                    switchers |-> sws]
    /\ initialized = FALSE
    /\ dirty = FALSE
    /\ pc = Idle
    /\ OutsideInit
    /\ last = [op |-> "load", arg |-> "", outcome |-> "returned",
               result |-> Undefined, events |-> << >>, again |-> FALSE]

NextApply == CallApplyLanguage

SpecApply == InitApply /\ [][NextApply]_vars

\* C12: after applyLanguage() the body's direction and class and the first
\* switcher's position are those of the active locale (right to left and the
\* left edge for he and ar, left to right and the right edge otherwise),
\* whatever they were before; a call that directly follows another changes
\* nothing.
C12_ApplyLanguageFunctionOfLocale ==
    [][last'.op = "applyLanguage" =>
          /\ page'.body = IF i18n.currentLang \in {"he", "ar"}
                          THEN [rtl |-> TRUE, direction |-> "rtl"]
                          ELSE [rtl |-> FALSE, direction |-> "ltr"]
          /\ page.switchers # << >> =>
                /\ page'.switchers[1].left =
                      IF i18n.currentLang \in {"he", "ar"} THEN "2rem" ELSE "auto"
                /\ page'.switchers[1].right =
                      IF i18n.currentLang \in {"he", "ar"} THEN "auto" ELSE "2rem"
          /\ page'.doc = page.doc
          /\ last'.again => page' = page]_vars

\* applyLanguage() has run twice on a page that was laid out left to right
\* with the switcher at the right edge while the active locale was Arabic.
C12_Witness ==
    /\ last.op = "applyLanguage"
    /\ last.again
    /\ i18n.currentLang = "ar"
    /\ page.body = [rtl |-> TRUE, direction |-> "rtl"]
    /\ page.switchers # << >>
    /\ page.switchers[1].left = "2rem"
    /\ page.switchers[1].buttons[1].active

\* The labels of a switcher's buttons, in order.
Labels(sw) == [j \in 1..Len(sw.buttons) |-> sw.buttons[j].textContent]

\* The labels of a switcher's buttons that carry the class 'active'.
ActiveLabels(sw) ==
    {sw.buttons[j].textContent : j \in {k \in 1..Len(sw.buttons) : sw.buttons[k].active}}

\* C13: the document never holds more than one '.language-switcher'; once
\* init() or createLanguageSwitcher() has been called it holds exactly one,
\* with exactly four buttons; and an init() that directly follows an init()
\* leaves the locale, the persisted value and the page as they were.
C13_SwitcherConstructionIdempotent ==
    [][/\ Len(page'.switchers) <= 1
       /\ (Defined' /\ (initialized' \/ last'.op = "createLanguageSwitcher")) =>
             /\ Len(page'.switchers) = 1
             /\ Len(page'.switchers[1].buttons) = 4
       /\ (last'.op = "init" /\ last'.again) =>
             UNCHANGED <<i18n, localStorage, page>>]_vars

\* init() has run twice in succession and the document holds one switcher.
C13_Witness ==
    /\ last.op = "init"
    /\ last.again
    /\ Len(page.switchers) = 1
    /\ Len(page.switchers[1].buttons) = 4

\* C14: in every state after init the switcher holds one button per
\* supported locale (EN, HE, AR, RU) and exactly one of them is marked
\* active, the button of the active locale.
C14_OneActiveButton ==
    (Defined /\ initialized) =>
        /\ page.switchers # << >>
        /\ Labels(page.switchers[1]) = <<"EN", "HE", "AR", "RU">>
        /\ \E l \in 1..Len(languages) :
              /\ languages[l].code = i18n.currentLang
              /\ ActiveLabels(page.switchers[1]) = {languages[l].label}

\* C19: init, createLanguageSwitcher, applyLanguage, translatePage and t
\* leave the active locale and the 'userLanguage' entry as they were.
C19_OnlyChangeLanguageWritesLocale ==
    [][last'.op \in {"init", "createLanguageSwitcher", "applyLanguage",
                     "translatePage", "t"} =>
          UNCHANGED <<i18n, localStorage>>]_vars

\* init() has run on a page whose storage holds no preference.
C19_Witness ==
    /\ last.op = "init"
    /\ localStorage = NoStorage
    /\ i18n.currentLang = "en"
    /\ page.switchers # << >>

\* ------------------------------------------------------------------------
\* changeLanguage and init statement by statement, with a storage that can
\* throw.  A handler runs to completion: while pc names a call, only that
\* call's next statement can happen.
\* ------------------------------------------------------------------------

\* A changeLanguage that broadcasts before it restyles.
changeLanguageStepsEventFirst ==
    <<"assign", "persist", "dispatch", "restyle", "apply", "translate">>

\* The statements of changeLanguage in program order (lines 365-394).
changeLanguageSteps ==
    <<"assign", "persist", "restyle", "apply", "translate", "dispatch">>

\* An init that applies the direction before it builds the switcher.
initStepsApplyFirst == <<"apply", "create", "translate">>

\* The statements of init in program order (lines 291-293).
initSteps == <<"create", "apply", "translate">>

\* The running call is op and its next statement is name.
At(op, steps, name) ==
    /\ pc.op = op
    /\ Len(pc.done) < Len(steps)
    /\ steps[Len(pc.done) + 1] = name

\* The statement name has been done.
Done(name) == [pc EXCEPT !.done = Append(@, name)]

\* The script runs, with a storage read that returns or throws (line 286).
StepLoad ==
    /\ pc = Idle
    /\ \E ok \in BOOLEAN : Load(ok)

\* init() is called (lines 459-470).
StartInit ==
    /\ pc = Idle
    /\ Defined
    /\ pc' = [Idle EXCEPT !.op = "init"]
    /\ UNCHANGED <<localStorage, i18n, page, html, initialized, dirty, last, outside>>

\* this.createLanguageSwitcher() (line 291).
InitStepCreate ==
    /\ At("init", initSteps, "create")
    /\ page' = createLanguageSwitcher(i18n.currentLang, page)
    /\ pc' = [Done("create") EXCEPT !.fresh = (page.switchers = << >>)]
    /\ UNCHANGED <<localStorage, i18n, html, initialized, dirty, last, outside>>

\* this.applyLanguage() (line 292).
InitStepApply ==
    /\ At("init", initSteps, "apply")
    /\ page' = applyLanguage(i18n.currentLang, page)
    /\ pc' = Done("apply")
    /\ UNCHANGED <<localStorage, i18n, html, initialized, dirty, last, outside>>

\* this.translatePage() (line 293).
InitStepTranslate ==
    /\ At("init", initSteps, "translate")
    /\ page' = translatePage(i18n.currentLang, page)
    /\ pc' = Done("translate")
    /\ UNCHANGED <<localStorage, i18n, html, initialized, dirty, last, outside>>

\* init() returns (line 294).
ReturnInit ==
    /\ pc.op = "init"
    /\ Len(pc.done) = Len(initSteps)
    /\ initialized' = TRUE
    /\ last' = Call("init", "", "returned", Undefined, << >>)
    /\ pc' = Idle
    /\ UNCHANGED <<localStorage, i18n, page, html, dirty, outside>>

\* changeLanguage(lang) is called (line 355, or any other script).
StartChangeLanguage ==
    /\ pc = Idle
    /\ Defined
    /\ \E lang \in LangArgs : pc' = [Idle EXCEPT !.op = "changeLanguage", !.arg = lang]
    /\ UNCHANGED <<localStorage, i18n, page, html, initialized, dirty, last, outside>>

\* this.currentLang = lang (line 365).
StepAssign ==
    /\ At("changeLanguage", changeLanguageSteps, "assign")
    /\ i18n' = [i18n EXCEPT !.currentLang = pc.arg]
    /\ dirty' = TRUE
    /\ pc' = Done("assign")
    /\ UNCHANGED <<localStorage, page, html, initialized, last, outside>>

\* localStorage.setItem('userLanguage', lang) (line 366) returns.
StepPersist ==
    /\ At("changeLanguage", changeLanguageSteps, "persist")
    /\ localStorage' = setItem(localStorage, pc.arg)
    /\ pc' = Done("persist")
    /\ UNCHANGED <<i18n, page, html, initialized, dirty, last, outside>>

\* localStorage.setItem('userLanguage', lang) (line 366) throws: the
\* exception leaves changeLanguage, which has no handler for it.
StepPersistThrows ==
    /\ At("changeLanguage", changeLanguageSteps, "persist")
    /\ last' = Call("changeLanguage", pc.arg, "threw", Undefined, pc.events)
    /\ pc' = Idle
    /\ UNCHANGED <<localStorage, i18n, page, html, initialized, dirty, outside>>

\* The loop over the buttons (lines 369-386).
StepRestyle ==
    /\ At("changeLanguage", changeLanguageSteps, "restyle")
    /\ page' = restyleButtons(pc.arg, page)
    /\ pc' = Done("restyle")
    /\ UNCHANGED <<localStorage, i18n, html, initialized, dirty, last, outside>>

\* this.applyLanguage() (line 388).
StepApply ==
    /\ At("changeLanguage", changeLanguageSteps, "apply")
    /\ page' = applyLanguage(i18n.currentLang, page)
    /\ pc' = Done("apply")
    /\ UNCHANGED <<localStorage, i18n, html, initialized, dirty, last, outside>>

\* this.translatePage() (line 389).
StepTranslate ==
    /\ At("changeLanguage", changeLanguageSteps, "translate")
    /\ page' = translatePage(i18n.currentLang, page)
    /\ pc' = Done("translate")
    /\ UNCHANGED <<localStorage, i18n, html, initialized, dirty, last, outside>>

\* window.dispatchEvent(...) (lines 392-394): the listeners run inside this
\* statement and see the state it starts from.
StepDispatch ==
    /\ At("changeLanguage", changeLanguageSteps, "dispatch")
    /\ pc' = [Done("dispatch") EXCEPT
                 !.events = Append(@, [type |-> "languageChanged",
                                       detail |-> [language |-> pc.arg]])]
    /\ UNCHANGED <<localStorage, i18n, page, html, initialized, dirty, last, outside>>

\* changeLanguage returns (line 395).
ReturnChangeLanguage ==
    /\ pc.op = "changeLanguage"
    /\ Len(pc.done) = Len(changeLanguageSteps)
    /\ last' = Call("changeLanguage", pc.arg, "returned", Undefined, pc.events)
    /\ pc' = Idle
    /\ UNCHANGED <<localStorage, i18n, page, html, initialized, dirty, outside>>

StepHtmls == {Html("nav.overview", 0), Html("nav.overview", 2), Html("nav.missing", 1)}

InitSteps ==
    /\ localStorage \in {NoStorage} \cup {Stored(v) : v \in LangArgs}
    /\ html \in StepHtmls
    /\ i18n = [currentLang |-> initialLang(localStorage)]
    /\ last = [op |-> "load", arg |-> "", outcome |-> "returned",
               result |-> Undefined, events |-> << >>, again |-> FALSE]
    /\ page = FreshPage(html)
    /\ initialized = FALSE
    /\ dirty = FALSE
    /\ pc = Idle
    /\ OutsideInit

NextSteps ==
    \/ StepLoad
    \/ StartInit
    \/ InitStepCreate
    \/ InitStepApply
    \/ InitStepTranslate
    \/ ReturnInit
    \/ StartChangeLanguage
    \/ StepAssign
    \/ StepPersist
    \/ StepPersistThrows
    \/ StepRestyle
    \/ StepApply
    \/ StepTranslate
    \/ StepDispatch
    \/ ReturnChangeLanguage

SpecSteps == InitSteps /\ [][NextSteps]_vars

\* ------------------------------------------------------------------------
\* Claims about the order of statements and about storage failures.
\* ------------------------------------------------------------------------

IsPrefix(a, b) == Len(a) <= Len(b) /\ \A j \in 1..Len(a) : a[j] = b[j]

\* The labels of the buttons that belong to locale l (none when l is not a
\* supported locale).
LabelsOf(l) == {languages[j].label : j \in {k \in 1..Len(languages) : languages[k].code = l}}

\* Locale, persisted value, button marking, direction and text all belong to
\* locale l.
ConsistentWith(l) ==
    /\ i18n.currentLang = l
    /\ "userLanguage" \in DOMAIN localStorage
    /\ localStorage["userLanguage"] = l
    /\ page.switchers # << >> => ActiveLabels(page.switchers[1]) = LabelsOf(l)
    /\ page.body = IF l \in {"he", "ar"}
                   THEN [rtl |-> TRUE, direction |-> "rtl"]
                   ELSE [rtl |-> FALSE, direction |-> "ltr"]
    /\ \A id \in Tagged(page.doc) :
          PresentIn(l, KeyOf(page.doc, id)) =>
              Str(textContent(page.doc, id)) = TableEntry(l, KeyOf(page.doc, id))

C16_ChangeLanguageAtomic ==
    (pc = Idle /\ last.op = "changeLanguage" /\ last.arg \in Supported) =>
        \E l \in LangArgs : ConsistentWith(l)

\* C17: a storage failure is never fatal: the i18n object exists after
\* every load, no call ends with an exception, and after every
\* changeLanguage(code) call the locale in memory, the buttons, the direction
\* and the text belong to code and one event has been broadcast.
C17_StorageFailureNeverFatal ==
    /\ last.op = "load" => (Defined /\ last.outcome = "returned")
    /\ (pc = Idle /\ last.op = "changeLanguage") =>
          /\ last.outcome = "returned"
          /\ Len(last.events) = 1
          /\ i18n.currentLang = last.arg
          /\ page.switchers # << >> =>
                ActiveLabels(page.switchers[1]) = LabelsOf(last.arg)
          /\ page.body.rtl = (last.arg \in {"he", "ar"})

\* C18: the statements of init happen in the order create, apply, translate,
\* with one application of the direction; a load restores a stored non-empty
\* preference; and when init returns the switcher exists and the direction
\* belongs to the locale, and for an RTL locale a switcher this init built is
\* at the left edge with the locale's button, and only it, marked.
C18_StartupOrder ==
    [][/\ pc'.op = "init" => IsPrefix(pc'.done, <<"create", "apply", "translate">>)
       /\ (pc = Idle /\ pc' = Idle /\ last'.op = "load" /\ Defined'
           /\ StoredValueSupported') =>
             i18n'.currentLang = localStorage'["userLanguage"]
       /\ (pc.op = "init" /\ pc' = Idle) =>
             /\ page'.switchers # << >>
             /\ page'.body.rtl = (i18n'.currentLang \in {"he", "ar"})
             /\ (pc.fresh /\ i18n'.currentLang \in {"he", "ar"}) =>
                   /\ page'.switchers[1].left = "2rem"
                   /\ page'.switchers[1].right = "auto"
                   /\ ActiveLabels(page'.switchers[1]) = LabelsOf(i18n'.currentLang)]_vars

\* The first init after a load with the stored preference 'he' has returned.
C18_Witness ==
    /\ pc = Idle
    /\ last.op = "init"
    /\ ~last.again
    /\ ~dirty
    /\ localStorage = Stored("he")
    /\ i18n.currentLang = "he"
    /\ page.switchers # << >>
    /\ page.switchers[1].left = "2rem"
    /\ ActiveLabels(page.switchers[1]) = {"HE"}
    /\ page.body = [rtl |-> TRUE, direction |-> "rtl"]

\* ------------------------------------------------------------------------
\* The text-matching fallback translator (src/static/js/language-fallback.js).
\* ------------------------------------------------------------------------

\* Object.keys of a language's table, in insertion order (lines 4-13).
fallbackKeys ==
    <<"Table for Two", "Real Dates. Real People. Real Connections.", "Login",
      "Sign Up", "Browse Tables", "My Matches", "Upcoming Dates", "Restaurant",
      "Date", "Time">>

FallbackLanguages == {"he", "ar", "ru"}

\* fallbackTranslations (lines 2-39).  The Hebrew, Arabic and Russian
\* literals are written as the language code, a slash and the English text;
\* like the literals, no two of them are equal and none is an English key.
fallbackTranslations ==
    [l \in FallbackLanguages |->
        [j \in 1..Len(fallbackKeys) |-> l \o "/" \o fallbackKeys[j]]]

\* Pairs that, for Arabic and Russian, start from the Hebrew text.
fallbackPairsFromHebrew(language) ==
    IF language \in FallbackLanguages
    THEN [j \in 1..Len(fallbackKeys) |->
             [from |-> IF language = "he" THEN fallbackKeys[j]
                       ELSE fallbackTranslations["he"][j],
              to   |-> fallbackTranslations[language][j]]]
    ELSE << >>

\* The pairs (english, translation) the loop of line 46 goes through;
\* << >> for a name Object.prototype answers ('constructor': a function,
\* which has no own enumerable keys).
fallbackPairs(language) ==
    IF language \in FallbackLanguages
    THEN [j \in 1..Len(fallbackKeys) |->
             [from |-> fallbackKeys[j], to |-> fallbackTranslations[language][j]]]
    ELSE << >>

\* document.querySelectorAll('*') (line 47): body and its descendants in
\* document order, a static list.
allElements(d) == <<"body">> \o Preorder(d, d["body"].kids)

\* The inner loop (lines 48-52) for one English text.
RECURSIVE replaceEach(_, _, _, _)
replaceEach(d, list, i, pair) ==
    IF i > Len(list) THEN d
    ELSE replaceEach(IF textContent(d, list[i]) = pair.from
                     THEN setTextContent(d, list[i], pair.to)
                     ELSE d,
                     list, i + 1, pair)

\* The outer loop (lines 46-53): the element list is taken anew for every
\* English text.
RECURSIVE replacePairs(_, _, _)
replacePairs(d, pairs, k) ==
    IF k > Len(pairs) THEN d
    ELSE replacePairs(replaceEach(d, allElements(d), 1, pairs[k]), pairs, k + 1)

\* applyFallbackTranslation(language) (lines 42-55).
applyFallbackTranslation(language, d) ==
    replacePairs(d, fallbackPairs(language), 1)

FallbackArgs == LangArgs \cup {"constructor"}

\* The texts the authored elements hold: English texts of the table, a text
\* the table does not hold, and none.
FallbackTexts == {"Login", "Date", "Welcome", ""}

\* A document whose link, badge and card hold the given texts; the badge is
\* a child of the link or its sibling.
FallbackHtml(a, b, c, nested) ==
    [body  |-> [attrs |-> NoAttrs,
                kids  |-> IF nested THEN <<ElNode("link"), ElNode("card")>>
                          ELSE <<ElNode("link"), ElNode("badge"), ElNode("card")>>],
     link  |-> [attrs |-> NoAttrs,
                kids  |-> (IF a = "" THEN << >> ELSE <<TextNode(a)>>)
                          \o (IF nested THEN <<ElNode("badge")>> ELSE << >>)],
     badge |-> [attrs |-> NoAttrs,
                kids  |-> IF b = "" THEN << >> ELSE <<TextNode(b)>>],
     card  |-> [attrs |-> NoAttrs,
                kids  |-> IF c = "" THEN << >> ELSE <<TextNode(c)>>]]

\* applyFallbackTranslation(language), called by any script.
CallApplyFallbackTranslation ==
    /\ \E language \in FallbackArgs :
          /\ page' = [page EXCEPT !.doc = applyFallbackTranslation(language, @)]
          /\ last' = Call("applyFallbackTranslation", language, "returned",
                          Undefined, << >>)
    /\ UNCHANGED <<localStorage, i18n, html, initialized, dirty, pc, outside>>

InitFallback ==
    /\ localStorage = NoStorage
    /\ html \in {FallbackHtml(a, b, c, n) : a \in FallbackTexts, b \in FallbackTexts,
                                            c \in FallbackTexts, n \in BOOLEAN}
    /\ i18n = [currentLang |-> "en"]
    /\ page = FreshPage(html)
    /\ initialized = FALSE
    /\ dirty = FALSE
    /\ pc = Idle
    /\ OutsideInit
    /\ last = [op |-> "load", arg |-> "", outcome |-> "returned",
               result |-> Undefined, events |-> << >>, again |-> FALSE]

NextFallback == CallApplyFallbackTranslation

SpecFallback == InitFallback /\ [][NextFallback]_vars

\* The translations of the fallback tables.
FallbackTranslated ==
    {fallbackTranslations[l][j] : l \in FallbackLanguages, j \in 1..Len(fallbackKeys)}

\* C20: an element that shows a translation the fallback translator has put
\* there keeps its text through every later applyFallbackTranslation call,
\* whatever the language; a call for a language without a table ('en'
\* included) changes nothing in the document.
C20_FallbackIsLossy ==
    [][last'.op = "applyFallbackTranslation" =>
          /\ \A id \in ElemIds :
                textContent(page.doc, id) \in FallbackTranslated =>
                    textContent(page'.doc, id) = textContent(page.doc, id)
          /\ last'.arg \notin FallbackLanguages => page' = page]_vars

\* The link and the card were put into Hebrew and a later call for Russian
\* has left them so.
C20_Witness ==
    /\ last.op = "applyFallbackTranslation"
    /\ last.again
    /\ last.arg = "ru"
    /\ textContent(page.doc, "link") = "he/Login"
    /\ textContent(html, "link") = "Login"
    /\ textContent(page.doc, "card") = "he/Date"

\* ------------------------------------------------------------------------
\* The readiness gate (lines 457-470) in the life of a document: parsing
\* ends (readyState 'interactive'), DOMContentLoaded is fired, the load ends
\* (readyState 'complete'); the script executes at any point of it.
\* ------------------------------------------------------------------------

\* A gate that waits for DOMContentLoaded whenever the load is not complete.
gateListenUnlessComplete(rs) ==
    IF rs = "complete" THEN "call" ELSE "listen"

\* What the script does with init, by document.readyState (lines 459-470).
gate(rs) ==
    IF rs = "complete" THEN "call"
    ELSE IF rs = "interactive" THEN "timeout"
    ELSE "listen"

\* init() invoked n times in a row.
RECURSIVE initTimes(_, _, _)
initTimes(n, lang, p) ==
    IF n = 0 THEN p ELSE initTimes(n - 1, lang, init(lang, p))

\* The parser reaches the end of the document.
DocumentParsed ==
    /\ readyState = "loading"
    /\ readyState' = "interactive"
    /\ UNCHANGED <<localStorage, i18n, page, html, initialized, dirty, last, pc,
                   domContentLoaded, scriptRan, timeouts, listeners, inits, gateRest>>

\* DOMContentLoaded is fired: every listener registered by line 467 runs.
FireDOMContentLoaded ==
    /\ readyState = "interactive"
    /\ ~domContentLoaded
    /\ domContentLoaded' = TRUE
    /\ inits' = inits + Len(listeners)
    /\ IF listeners = << >>
       THEN UNCHANGED <<page, initialized, last>>
       ELSE /\ page' = initTimes(Len(listeners), i18n.currentLang, page)
            /\ initialized' = TRUE
            /\ last' = Call("init", "", "returned", Undefined, << >>)
    /\ UNCHANGED <<localStorage, i18n, html, dirty, pc, readyState, scriptRan,
                   timeouts, listeners, gateRest>>

\* The load event: every resource has arrived.
WindowLoad ==
    /\ readyState = "interactive"
    /\ domContentLoaded
    /\ readyState' = "complete"
    /\ UNCHANGED <<localStorage, i18n, page, html, initialized, dirty, last, pc,
                   domContentLoaded, scriptRan, timeouts, listeners, inits, gateRest>>

\* The script executes (lines 220-471) with a readable storage: window.i18n
\* is built and the gate calls init, queues it or registers it.
RunScript ==
    /\ ~scriptRan
    /\ scriptRan' = TRUE
    /\ i18n' = [currentLang |-> initialLang(localStorage)]
    /\ LET g == gate(readyState)
       IN  /\ timeouts' = IF g = "timeout" THEN Append(timeouts, "init") ELSE timeouts
           /\ listeners' = IF g = "listen" THEN Append(listeners, "init") ELSE listeners
           /\ IF g = "call"
              THEN /\ page' = init(initialLang(localStorage), page)
                   /\ initialized' = TRUE
                   /\ inits' = inits + 1
                   /\ last' = Call("init", "", "returned", Undefined, << >>)
              ELSE UNCHANGED <<page, initialized, inits, last>>
    /\ UNCHANGED <<localStorage, html, dirty, pc, readyState, domContentLoaded, gateRest>>

\* The callback of line 464 runs as a task of its own.
TimeoutFires ==
    /\ timeouts # << >>
    /\ timeouts' = Tail(timeouts)
    /\ page' = init(i18n.currentLang, page)
    /\ initialized' = TRUE
    /\ inits' = inits + 1
    /\ last' = Call("init", "", "returned", Undefined, << >>)
    /\ UNCHANGED <<localStorage, i18n, html, dirty, pc, readyState,
                   domContentLoaded, scriptRan, listeners, gateRest>>

\* A navigation has begun: the document is being parsed and the script has
\* not executed.
InitReady ==
    /\ localStorage \in {NoStorage} \cup {Stored(v) : v \in LangArgs}
    /\ html \in StepHtmls
    /\ i18n = << >>
    /\ page = FreshPage(html)
    /\ initialized = FALSE
    /\ dirty = FALSE
    /\ pc = Idle
    /\ last = [op |-> "load", arg |-> "", outcome |-> "returned",
               result |-> Undefined, events |-> << >>, again |-> FALSE]
    /\ readyState = "loading"
    /\ domContentLoaded = FALSE
    /\ scriptRan = FALSE
    /\ timeouts = << >>
    /\ listeners = << >>
    /\ inits = 0
    /\ GateRestInit

NextReady ==
    \/ DocumentParsed
    \/ FireDOMContentLoaded
    \/ WindowLoad
    \/ RunScript
    \/ TimeoutFires

SpecReady == InitReady /\ [][NextReady]_vars

\* Nothing that could still invoke init() is left: the script has run, no
\* timeout is queued and DOMContentLoaded has been fired.
NothingPending == scriptRan /\ timeouts = << >> /\ domContentLoaded

Methods == {"", "GET", "POST"}

\* The headers a caller passes in options: none, or an object of its own.
OwnHeaders == {"none", "custom"}

\* A body response.json() cannot parse.
NotJSON == [type |-> "notjson"]

\* The tokens the server issues.
Tokens == {"t1", "t2"}

\* The bodies /csrf-token answers with: a token, or an error object.
TokenBodies ==
    {Obj([csrf_token |-> Str(tk)]) : tk \in Tokens}
        \cup {Obj([message |-> Str("Server error")])}

\* The bodies an endpoint answers with.
Bodies ==
    {NotJSON, Null, Obj(<< >>), Obj([message |-> Str("Bad input")])}

\* The statuses of the answers that are not OK.
ErrorStatuses == {404, 500}

\* !this.csrfToken (line 12).
noToken(tok) == tok = Null \/ ~Truthy(tok)

\* defaultOptions.headers (lines 32-34, and 39 for a call that is not a GET).
defaultHeaders(method, tok) ==
    IF method # "" /\ method # "GET"
    THEN [ContentType |-> Str("application/json"), XCSRFToken |-> tok]
    ELSE [ContentType |-> Str("application/json")]

\* { ...defaultOptions, ...options } (line 42): the caller's headers object
\* replaces the default one as a whole.
finalHeaders(method, own, tok) ==
    IF own = "custom" THEN [XCustom |-> Str("1")]
    ELSE defaultHeaders(method, tok)

\* The fetch of line 49; held is this.csrfToken at that moment.
targetFetch(r, method, own, tok) ==
    [by |-> r, url |-> "endpoint", method |-> method,
     headers |-> finalHeaders(method, own, tok), held |-> tok]

\* The fetch of line 14.
tokenFetch(r) ==
    [by |-> r, url |-> "/csrf-token", method |-> "", headers |-> << >>,
     held |-> Null]

\* The Error of lines 52-53 for an answer that is not OK.
errorOf(status, body) ==
    LET error == IF body = NotJSON THEN Obj([message |-> Str("Request failed")])
                 ELSE body
    IN  IF error = Null
        THEN [kind |-> "rejected", name |-> "TypeError",
              message |-> "Cannot read properties of null"]
        ELSE [kind |-> "rejected", name |-> "Error",
              message |-> IF Truthy(GetProp(error, "message"))
                          THEN GetProp(error, "message").val
                          ELSE "HTTP " \o ToString(status)]

\* request(endpoint, options) is called (lines 28-49): a call that is not a
\* GET takes the token, fetching it when the instance holds none.
Request(r) ==
    /\ reqs[r].st = "idle"
    /\ \E method \in Methods, own \in OwnHeaders :
         IF method # "" /\ method # "GET" /\ noToken(csrfToken)
         THEN /\ reqs' = [reqs EXCEPT ![r] = [@ EXCEPT !.st = "token", !.method = method,
                                                        !.own = own, !.tokenFetch = "pending"]]
              /\ net' = Append(net, tokenFetch(r))
         ELSE /\ reqs' = [reqs EXCEPT ![r] = [@ EXCEPT !.st = "endpoint", !.method = method,
                                                        !.own = own]]
              /\ net' = Append(net, targetFetch(r, method, own, csrfToken))
    /\ UNCHANGED <<localStorage, i18n, page, html, initialized, dirty, last, pc,
                   apiRest, csrfToken>>

\* The fetch of /csrf-token rejects, or its body is not JSON (lines 13-22):
\* getCSRFToken rethrows and request() rejects at line 39.
TokenFetchFails(r) ==
    /\ reqs[r].st = "token"
    /\ \E name \in {"TypeError", "SyntaxError"} :
         reqs' = [reqs EXCEPT ![r] = [@ EXCEPT !.st = "done", !.tokenFetch = "failed",
                     !.result = [kind |-> "rejected", name |-> name,
                                 message |-> "csrf-token failed"]]]
    /\ UNCHANGED <<localStorage, i18n, page, html, initialized, dirty, last, pc,
                   apiRest, csrfToken, net>>

\* /csrf-token answers with JSON (lines 17-18, 24, 39-49): the field is
\* stored, returned, put into the default headers, and the endpoint is
\* fetched.
TokenArrives(r) ==
    /\ reqs[r].st = "token"
    /\ \E data \in TokenBodies :
         /\ csrfToken' = GetProp(data, "csrf_token")
         /\ reqs' = [reqs EXCEPT ![r] = [@ EXCEPT !.st = "endpoint",
                        !.tokenFetch = IF "csrf_token" \in DOMAIN data.props
                                       THEN "ok" ELSE "empty"]]
         /\ net' = Append(net, targetFetch(r, reqs[r].method, reqs[r].own,
                                           GetProp(data, "csrf_token")))
    /\ UNCHANGED <<localStorage, i18n, page, html, initialized, dirty, last, pc,
                   apiRest>>

\* The endpoint answers OK (lines 49, 56).
ResponseOk(r) ==
    /\ reqs[r].st = "endpoint"
    /\ \E body \in {NotJSON, Obj([id |-> Num(1)])} :
         reqs' = [reqs EXCEPT ![r] = [@ EXCEPT !.st = "done",
                     !.resp = [ok |-> TRUE, status |-> 200, body |-> body],
                     !.result = IF body = NotJSON
                                THEN [kind |-> "rejected", name |-> "SyntaxError",
                                      message |-> "Unexpected token"]
                                ELSE [kind |-> "resolved", value |-> body]]]
    /\ UNCHANGED <<localStorage, i18n, page, html, initialized, dirty, last, pc,
                   apiRest, csrfToken, net>>

\* The endpoint answers with a status that is not OK (lines 51-54, 57-59).
ResponseNotOk(r) ==
    /\ reqs[r].st = "endpoint"
    /\ \E status \in ErrorStatuses, body \in Bodies :
         reqs' = [reqs EXCEPT ![r] = [@ EXCEPT !.st = "done",
                     !.resp = [ok |-> FALSE, status |-> status, body |-> body],
                     !.result = errorOf(status, body)]]
    /\ UNCHANGED <<localStorage, i18n, page, html, initialized, dirty, last, pc,
                   apiRest, csrfToken, net>>

InitApi ==
    /\ localStorage = NoStorage
    /\ html = Html("nav.overview", 0)
    /\ i18n = [currentLang |-> "en"]
    /\ page = FreshPage(html)
    /\ initialized = FALSE
    /\ dirty = FALSE
    /\ pc = Idle
    /\ last = [op |-> "load", arg |-> "", outcome |-> "returned",
               result |-> Undefined, events |-> << >>, again |-> FALSE]
    /\ ApiNew
    /\ ApiRestInit

NextApi ==
    \E r \in 1..MaxReq :
        \/ Request(r)
        \/ TokenFetchFails(r)
        \/ TokenArrives(r)
        \/ ResponseOk(r)
        \/ ResponseNotOk(r)

SpecApi == InitApi /\ [][NextApi]_vars

\* ------------------------------------------------------------------------
\* Claims about APIService.
\* ------------------------------------------------------------------------

\* The fetch calls made to /csrf-token, by their place in the log.
TokenFetches == {j \in 1..Len(net) : net[j].url = "/csrf-token"}

\* The fetch calls made to an endpoint by request r.
EndpointFetches(r) == {j \in 1..Len(net) : net[j].url = "endpoint" /\ net[j].by = r}

\* C22: every fetch of an endpoint with a method other than GET carries an
\* X-CSRF-Token header holding the token the instance holds, whatever
\* options the caller passed; a call with no method or with GET fetches no
\* token.
C22_NonGetCarriesToken ==
    \A j \in 1..Len(net) :
        /\ (net[j].url = "endpoint" /\ net[j].method \notin {"", "GET"}) =>
              /\ "XCSRFToken" \in DOMAIN net[j].headers
              /\ net[j].headers["XCSRFToken"] = net[j].held
        /\ net[j].url = "/csrf-token" => reqs[net[j].by].method \notin {"", "GET"}

\* The message the error of an answer that is not OK is to carry, read off
\* the answer alone.
ExpectedMessage(status, body) ==
    IF body = NotJSON THEN "Request failed"
    ELSE IF body.type = "object" /\ "message" \in DOMAIN body.props
         THEN body.props["message"].val
         ELSE "HTTP " \o ToString(status)

\* C23: a request whose answer is not OK rejects with an Error whose message
\* is the body's message, 'HTTP <status>' for a JSON body without one, and
\* 'Request failed' for a body that is not JSON; a request whose token fetch
\* did not yield a token rejects and never fetches its endpoint.
C23_NonOkRejects ==
    \A r \in 1..MaxReq :
        /\ (reqs[r].st = "done" /\ reqs[r].resp # << >> /\ ~reqs[r].resp.ok) =>
              /\ reqs[r].result.kind = "rejected"
              /\ reqs[r].result.name = "Error"
              /\ reqs[r].result.message =
                     ExpectedMessage(reqs[r].resp.status, reqs[r].resp.body)
        /\ reqs[r].tokenFetch \in {"failed", "empty"} =>
              /\ reqs[r].st = "done"
              /\ reqs[r].result.kind = "rejected"
              /\ EndpointFetches(r) = {}

\* C27: a fetch of /csrf-token that succeeds is the instance's last one: no
\* other fetch of /csrf-token is made after it was started, whether before
\* or after its answer arrives.
C27_TokenFetchedOnce ==
    \A j \in TokenFetches, k \in TokenFetches :
        (j < k) => reqs[net[j].by].tokenFetch # "ok"

\* ------------------------------------------------------------------------
\* Utils.debounce and Utils.throttle (src/utils.js, lines 199-222) on a
\* clock.  A timer runs when its time has come or later, never earlier.
\* func is a function that returns.
\* ------------------------------------------------------------------------

\* The last instant of the clock.
MaxTime == 5

\* How many times the wrapped function is called.
MaxCalls == 3

\* The values of wait and of limit.
Delays == {1, 2}

\* The arguments of the calls.
Args == {"a", "b"}

\* The i18n page these functions run beside.
InitBeside ==
    /\ localStorage = NoStorage
    /\ html = Html("nav.overview", 0)
    /\ i18n = [currentLang |-> "en"]
    /\ page = FreshPage(html)
    /\ initialized = FALSE
    /\ dirty = FALSE
    /\ pc = Idle
    /\ last = [op |-> "load", arg |-> "", outcome |-> "returned",
               result |-> Undefined, events |-> << >>, again |-> FALSE]

\* The calls of the wrapped function in the log.
CallsIn(l) == {j \in 1..Len(l) : l[j].kind = "call"}

\* setTimeout(callback, ms): a new timer, named by its number.
setTimeout(ts, id, due, args) == ts \cup {[id |-> id, due |-> due, args |-> args]}

\* clearTimeout(id): nothing for an id that names no timer.
clearTimeout(ts, id) == {tm \in ts : tm.id # id}

\* A debounced function that lets the pending timer be.
keepPending(ts, id) == ts

\* Line 207: the pending invocation is cancelled.
cancelPending(ts, id) == clearTimeout(ts, id)

\* Time passes.
Tick ==
    /\ now < MaxTime
    /\ now' = now + 1
    /\ UNCHANGED <<i18nVars, delay, timers, timeout, inThrottle, log, timerRest>>

\* executedFunction(...args) (lines 202-209).
DebouncedCall ==
    /\ Cardinality(CallsIn(log)) < MaxCalls
    /\ \E args \in Args :
         /\ timers' = setTimeout(cancelPending(timers, timeout), Len(log) + 1,
                                 now + delay, args)
         /\ timeout' = Len(log) + 1
         /\ log' = Append(log, [kind |-> "call", at |-> now, args |-> args])
    /\ UNCHANGED <<i18nVars, now, delay, inThrottle, timerRest>>

\* later() (lines 203-206) runs, at its time or after it.
Later ==
    /\ \E tm \in timers :
         /\ tm.due <= now
         /\ timers' = clearTimeout(timers \ {tm}, timeout)
         /\ log' = Append(log, [kind |-> "run", at |-> now, args |-> tm.args])
    /\ UNCHANGED <<i18nVars, now, delay, timeout, inThrottle, timerRest>>

InitDebounce ==
    /\ InitBeside
    /\ now = 0
    /\ delay \in Delays
    /\ timers = {}
    /\ timeout = 0
    /\ inThrottle = FALSE
    /\ log = << >>
    /\ TimerRestInit

NextDebounce ==
    \/ Tick
    \/ DebouncedCall
    \/ Later

SpecDebounce == InitDebounce /\ [][NextDebounce]_vars

\* C24: func runs only as the answer to the call just before it in the
\* log, with that call's arguments, at least wait after it, and so at most
\* once per burst; at most one invocation is pending, that of the last call.
C24_DebounceLaw ==
    /\ \A j \in 1..Len(log) :
          log[j].kind = "run" =>
              /\ j > 1
              /\ log[j - 1].kind = "call"
              /\ log[j - 1].args = log[j].args
              /\ log[j].at - log[j - 1].at >= delay
    /\ Cardinality(timers) <= 1
    /\ \A tm \in timers :
          /\ log[Len(log)].kind = "call"
          /\ tm.args = log[Len(log)].args
          /\ tm.due = log[Len(log)].at + delay

\* A burst of two calls with different arguments, the second before the
\* first one's timer could run, then one run, with the second's arguments.
C24_Witness ==
    /\ Len(log) = 3
    /\ log[1].kind = "call"
    /\ log[2].kind = "call"
    /\ log[2].args # log[1].args
    /\ log[2].at - log[1].at < delay
    /\ log[3].kind = "run"
    /\ log[3].args = log[2].args
    /\ timers = {}

\* A throttled function that never opens the window.
windowStaysClosed(inT) == inT

\* Line 218: the window opens.
openWindow(inT) == TRUE

\* The function throttle returns (lines 215-221).
ThrottledCall ==
    /\ Cardinality(CallsIn(log)) < MaxCalls
    /\ \E args \in Args :
         IF ~inThrottle
         THEN /\ log' = log \o <<[kind |-> "call", at |-> now, args |-> args],
                                 [kind |-> "run", at |-> now, args |-> args]>>
              /\ inThrottle' = openWindow(inThrottle)
              /\ timers' = setTimeout(timers, Len(log) + 1, now + delay, args)
         ELSE /\ log' = Append(log, [kind |-> "call", at |-> now, args |-> args])
              /\ UNCHANGED <<inThrottle, timers>>
    /\ UNCHANGED <<i18nVars, now, delay, timeout, timerRest>>

\* The callback of line 219 runs, at its time or after it.
WindowCloses ==
    /\ \E tm \in timers :
         /\ tm.due <= now
         /\ timers' = timers \ {tm}
         /\ inThrottle' = FALSE
         /\ log' = Append(log, [kind |-> "closed", at |-> now, args |-> tm.args])
    /\ UNCHANGED <<i18nVars, now, delay, timeout, timerRest>>

InitThrottle ==
    /\ InitBeside
    /\ now = 0
    /\ delay \in Delays
    /\ timers = {}
    /\ timeout = 0
    /\ inThrottle = FALSE
    /\ log = << >>
    /\ TimerRestInit

NextThrottle ==
    \/ Tick
    \/ ThrottledCall
    \/ WindowCloses

SpecThrottle == InitThrottle /\ [][NextThrottle]_vars

\* The call at place j of the log is the first one of all or the first one
\* after the window has closed.
FirstOfWindow(j) == j = 1 \/ log[j - 1].kind = "closed"

ToastTypes == {"info", "error", "other"}

\* An init that builds a container on every call.
toastInitAlways(c, made) == made + 1

\* init() (lines 9-21): this.container after the call, where made is the
\* number of containers built so far.
toastInit(c, made) == IF c = 0 THEN made + 1 ELSE c

\* A removal through the parent, which throws for an element without one.
removeFromParent(tst) ==
    IF tst.st = "in" THEN [toast |-> [tst EXCEPT !.st = "out"], threw |-> FALSE]
    ELSE [toast |-> tst, threw |-> TRUE]

\* element.remove(): nothing for an element without a parent.
remove(tst) ==
    [toast |-> IF tst.st = "in" THEN [tst EXCEPT !.st = "out"] ELSE tst,
     threw |-> FALSE]

\* The toasts shown so far.
Shown == {n \in 1..MaxToasts : toasts[n].st # "none"}

\* show(message, type, duration) (lines 23-79).
Show ==
    /\ Cardinality(Shown) < MaxToasts
    /\ LET n == Cardinality(Shown) + 1
           c == toastInit(container, Cardinality(bodyContainers))
       IN  /\ container' = c
           /\ bodyContainers' = bodyContainers \cup {c}
           /\ \E type \in ToastTypes :
                toasts' = [toasts EXCEPT ![n] =
                              [st |-> "in", parent |-> c, type |-> type,
                               transform |-> "translateX(400px)", closed |-> FALSE]]
           /\ toastTimers' = toastTimers \cup {[toast |-> n, run |-> "slideIn"],
                                              [toast |-> n, run |-> "slideOut"]}
    /\ UNCHANGED <<i18nVars, toastThrew, toastRest>>

\* The callback of lines 70-72.
SlideIn(n) ==
    /\ [toast |-> n, run |-> "slideIn"] \in toastTimers
    /\ toastTimers' = toastTimers \ {[toast |-> n, run |-> "slideIn"]}
    /\ toasts' = [toasts EXCEPT ![n].transform = "translateX(0)"]
    /\ UNCHANGED <<i18nVars, container, bodyContainers, toastThrew, toastRest>>

\* The callback of lines 75-78.
SlideOut(n) ==
    /\ [toast |-> n, run |-> "slideOut"] \in toastTimers
    /\ toastTimers' = (toastTimers \ {[toast |-> n, run |-> "slideOut"]})
                          \cup {[toast |-> n, run |-> "remove"]}
    /\ toasts' = [toasts EXCEPT ![n].transform = "translateX(400px)"]
    /\ UNCHANGED <<i18nVars, container, bodyContainers, toastThrew, toastRest>>

\* The callback of line 77: toast.remove().
AutoRemove(n) ==
    /\ [toast |-> n, run |-> "remove"] \in toastTimers
    /\ toastTimers' = toastTimers \ {[toast |-> n, run |-> "remove"]}
    /\ toasts' = [toasts EXCEPT ![n] = remove(@).toast]
    /\ toastThrew' = (toastThrew \/ remove(toasts[n]).threw)
    /\ UNCHANGED <<i18nVars, container, bodyContainers, toastRest>>

\* A click on the close button of a toast that is on the page (line 57):
\* this.parentElement.remove().
CloseClick(n) ==
    /\ toasts[n].st = "in"
    /\ toasts' = [toasts EXCEPT ![n] = [remove(@).toast EXCEPT !.closed = TRUE]]
    /\ toastThrew' = (toastThrew \/ remove(toasts[n]).threw)
    /\ UNCHANGED <<i18nVars, container, bodyContainers, toastTimers, toastRest>>

InitToast ==
    /\ InitBeside
    /\ ToastNew
    /\ ToastRestInit

\* A timer's callback.
ToastTimer(n) == SlideIn(n) \/ SlideOut(n) \/ AutoRemove(n)

NextToast ==
    \/ Show
    \/ \E n \in 1..MaxToasts :
          \/ SlideIn(n)
          \/ SlideOut(n)
          \/ AutoRemove(n)
          \/ CloseClick(n)

\* Every timer that was started runs in the end.
SpecToast ==
    /\ InitToast
    /\ [][NextToast]_vars
    /\ \A n \in 1..MaxToasts : WF_vars(ToastTimer(n))

\* After a show the body holds one container, the one the toasts are in.
OneToastContainer ==
    Shown # {} =>
        /\ Cardinality(bodyContainers) = 1
        /\ container \in bodyContainers
        /\ \A n \in Shown : toasts[n].parent = container

\* C26: after any number of show calls the body holds exactly one
\* '#toast-container' and every toast shown was appended to it; no callback
\* or handler throws; and every toast on the page is removed in the end,
\* also one whose close button was clicked before its timers ran.
C26_ToastLifecycle ==
    /\ [](OneToastContainer /\ ~toastThrew)
    /\ \A n \in 1..MaxToasts : (toasts[n].st = "in") ~> (toasts[n].st = "out")

\* The first toast was closed by its button while its timers were pending,
\* the timers have all run since, and the second toast was removed by its
\* timer.
C26_Witness ==
    /\ toasts[1].st = "out"
    /\ toasts[1].closed
    /\ toasts[2].st = "out"
    /\ ~toasts[2].closed
    /\ toastTimers = {}
    /\ Cardinality(bodyContainers) = 1

\* ------------------------------------------------------------------------
\* UIComponents.autocomplete.create (src/unnamed/part_000, lines 414-513).
\* With a function as source the input handler waits for source(value) and
\* other events are handled while it waits.
\* ------------------------------------------------------------------------

\* minLength = 2 (line 417).
minLength == 2

\* How many input events there are.
MaxInputs == 3

\* The texts typed into the input.
Typed == {"", "a", "ab", "abc", "abx"}

\* What the source answers for a value.
Results(value) ==
    CASE value = "ab"  -> <<"abc", "abd", "abe">>
      [] value = "abc" -> <<"abc">>
      [] OTHER         -> << >>

\* Lines 453-479: the handler from the items on.
render(items, kids, disp) ==
    IF Len(items) = 0
    THEN [children |-> kids, display |-> "none"]
    ELSE [children |-> items, display |-> "block"]

\* An input event with the value typed (lines 440-451).
Input ==
    /\ inputs < MaxInputs
    /\ inputs' = inputs + 1
    /\ \E value \in Typed :
         /\ inputValue' = value
         /\ IF Len(value) < minLength
            THEN /\ display' = "none"
                 /\ UNCHANGED <<pending, children>>
            ELSE IF sourceIsFunction
                 THEN /\ pending' = pending \cup {[n |-> inputs + 1, value |-> value]}
                      /\ UNCHANGED <<children, display>>
                 ELSE /\ children' = render(Results(value), children, display).children
                      /\ display' = render(Results(value), children, display).display
                      /\ UNCHANGED pending
    /\ UNCHANGED <<i18nVars, sourceIsFunction, currentFocus, selected, acRest>>

\* source(value) answers and the handler goes on (lines 448, 453-479).
SourceAnswers ==
    /\ \E q \in pending :
         /\ pending' = pending \ {q}
         /\ children' = render(Results(q.value), children, display).children
         /\ display' = render(Results(q.value), children, display).display
    /\ UNCHANGED <<i18nVars, sourceIsFunction, inputValue, inputs, currentFocus,
                   selected, acRest>>

\* The mouse moves over the item with the given index (lines 471-474).
MouseOver ==
    /\ display = "block"
    /\ \E index \in 0..(Len(children) - 1) : currentFocus' = index
    /\ UNCHANGED <<i18nVars, sourceIsFunction, inputValue, inputs, pending,
                   children, display, selected, acRest>>

\* ArrowDown (lines 490-493).
ArrowDown ==
    /\ currentFocus' = IF currentFocus + 1 < Len(children) - 1
                       THEN currentFocus + 1 ELSE Len(children) - 1
    /\ UNCHANGED <<i18nVars, sourceIsFunction, inputValue, inputs, pending,
                   children, display, selected, acRest>>

\* ArrowUp (lines 494-497).
ArrowUp ==
    /\ currentFocus' = IF currentFocus - 1 > 0 THEN currentFocus - 1 ELSE 0
    /\ UNCHANGED <<i18nVars, sourceIsFunction, inputValue, inputs, pending,
                   children, display, selected, acRest>>

\* The item's click listener (lines 466-470).
click(index) ==
    /\ inputValue' = children[index + 1]
    /\ display' = "none"
    /\ selected' = children[index + 1]

\* Enter (lines 498-502).
Enter ==
    /\ IF currentFocus > -1 /\ currentFocus + 1 \in DOMAIN children
       THEN click(currentFocus)
       ELSE UNCHANGED <<inputValue, display, selected>>
    /\ UNCHANGED <<i18nVars, sourceIsFunction, inputs, pending, children,
                   currentFocus, acRest>>

\* Escape (lines 503-504), and the document's click listener (lines 508-512).
Escape ==
    /\ display' = "none"
    /\ UNCHANGED <<i18nVars, sourceIsFunction, inputValue, inputs, pending,
                   children, currentFocus, selected, acRest>>

InitAutocomplete ==
    /\ InitBeside
    /\ sourceIsFunction \in BOOLEAN
    /\ inputValue = ""
    /\ inputs = 0
    /\ pending = {}
    /\ children = << >>
    /\ display = "none"
    /\ currentFocus = -1
    /\ selected = ""
    /\ AcRestInit

NextAutocomplete ==
    \/ Input
    \/ SourceAnswers
    \/ MouseOver
    \/ ArrowDown
    \/ ArrowUp
    \/ Enter
    \/ Escape

SpecAutocomplete == InitAutocomplete /\ [][NextAutocomplete]_vars

\* C28: once every source call has answered, a list that is visible is the
\* result for the current input value, and no list is visible while the
\* value is shorter than minLength.
C28_ListIsForLatestInput ==
    (pending = {} /\ display = "block") =>
        /\ Len(inputValue) >= minLength
        /\ children = Results(inputValue)

\* C29: currentFocus is -1 or the index of an item of the list.
C29_FocusInRange ==
    /\ currentFocus >= -1
    /\ currentFocus <= Len(children) - 1

====
